---- MODULE Spec2Model ----
(***************************************************************************)
(* A model of app.py, the Excel/CSV -> Review/Plan .docx generator.        *)
(*                                                                         *)
(* Text is modelled as a sequence of one-character strings, so that        *)
(* strip(), upper(), lower(), re.sub() and re.search() are computed        *)
(* character by character the way the code computes them.  The empty       *)
(* sequence << >> is the empty string; a blank (NaN) cell of the           *)
(* DataFrame is the empty sequence as well, since every read of a cell in  *)
(* app.py maps NaN to "" first (pd.isna).  An Optional value is << >>      *)
(* for None and <<v>> for a value v.                                       *)
(***************************************************************************)
EXTENDS Integers, Sequences, FiniteSets, TLC

VARIABLES
    pc,            \* position of the script / of the function under call
    arg,           \* the inputs of the run: widget values, uploaded table
    ret,           \* the value returned by the function under call
    col_store,     \* app.py:243  resolved store column ("" = << >>)
    col_bex_yesno, \* app.py:252  resolved YES/NO column
    i0,            \* app.py:314  0-based index of the row being visited
    built,         \* app.py:306  number of documents written
    zf,            \* app.py:305  the entries of the output ZIP, in order
    warnings,      \* app.py:414  st.warning lines (1-based row numbers)
    skips,         \* app.py:331  "skipped row" progress lines (row numbers)
    errors         \* app.py:203..246  top-level st.error messages

vars == <<pc, arg, ret, col_store, col_bex_yesno, i0, built, zf, warnings,
          skips, errors>>

batchVars == <<col_store, col_bex_yesno, i0, built, zf, warnings, skips, errors>>

----------------------------------------------------------------------------
(* Characters and strings *)

Upper26 == <<"A","B","C","D","E","F","G","H","I","J","K","L","M",
             "N","O","P","Q","R","S","T","U","V","W","X","Y","Z">>

Lower26 == <<"a","b","c","d","e","f","g","h","i","j","k","l","m",
             "n","o","p","q","r","s","t","u","v","w","x","y","z">>

Digits == <<"0","1","2","3","4","5","6","7","8","9">>

RangeOf(s) == {s[i] : i \in DOMAIN s}

UpperSet == RangeOf(Upper26)

LowerSet == RangeOf(Lower26)

DigitSet == RangeOf(Digits)

\* \s of the regular expressions and the characters str.strip() removes
Whitespace == {" "}

\* 1-based position of character c in the sequence s (c occurs in s)
PosIn(s, c) == CHOOSE i \in DOMAIN s : s[i] = c

\* str.upper() and str.lower(), one character
ToUpper(c) == IF c \in LowerSet THEN Upper26[PosIn(Lower26, c)] ELSE c

ToLower(c) == IF c \in UpperSet THEN Lower26[PosIn(Upper26, c)] ELSE c

upper(s) == [i \in DOMAIN s |-> ToUpper(s[i])]

lower(s) == [i \in DOMAIN s |-> ToLower(s[i])]

RECURSIVE lstrip(_)
lstrip(s) ==
    IF s # << >> /\ Head(s) \in Whitespace THEN lstrip(Tail(s)) ELSE s

RECURSIVE rstrip(_)
rstrip(s) ==
    IF s # << >> /\ s[Len(s)] \in Whitespace
    THEN rstrip(SubSeq(s, 1, Len(s) - 1)) ELSE s

\* str.strip()
strip(s) == rstrip(lstrip(s))

\* re.sub(r"[^...]", "", s): keep the characters of the set `keep`
KeepOnly(s, keep) == SelectSeq(s, LAMBDA c : c \in keep)

\* all strings over `alphabet` of length at most n
StringsUpTo(alphabet, n) == UNION {[1..k -> alphabet] : k \in 0..n}

None == << >>

Some(v) == <<v>>

----------------------------------------------------------------------------
(* letter_to_index, app.py:68-83 *)

\* ord(ch) - ord("A") + 1
LetterDigit(ch) == PosIn(Upper26, ch)

\* the loop of app.py:80-82 over the letters s
RECURSIVE LetterFold(_)
LetterFold(s) ==
    IF s = << >> THEN 0
    ELSE LetterFold(SubSeq(s, 1, Len(s) - 1)) * 26 + LetterDigit(s[Len(s)])

\* letter_to_index with every character outside A-Z rejecting the letter
letter_to_index_rejecting(letter) ==
    LET s == upper(strip(letter))
    IN  IF s = << >> THEN None
        ELSE IF KeepOnly(s, UpperSet) # s THEN None
        ELSE Some(LetterFold(s) - 1)

letter_to_index(letter) ==
    LET s == upper(strip(letter))
    IN  IF s = << >> THEN None
        ELSE LET t == KeepOnly(s, UpperSet)
             IN  IF t = << >> THEN None
                 ELSE Some(LetterFold(t) - 1)

(* value_from_letter_row, app.py:128-138.  df is [cols, rows], rows a       *)
(* sequence of rows, each a sequence of cells; len(df) = Len(df.rows) and   *)
(* len(df.columns) = Len(df.cols).  A NaN cell is << >>.                   *)
value_from_letter_row(df, row_idx_0_based, letter) ==
    LET ci == letter_to_index(letter)
    IN  IF ci = None THEN << >>
        ELSE IF row_idx_0_based < 0 \/ row_idx_0_based >= Len(df.rows) THEN << >>
        ELSE IF ci[1] < 0 \/ ci[1] >= Len(df.cols) THEN << >>
        ELSE df.rows[row_idx_0_based + 1][ci[1] + 1]

----------------------------------------------------------------------------
(* Calls of letter_to_index / value_from_letter_row on bounded inputs *)

MaxLetterLen == 3

LetterAlphabet == {"A", "B", "Z", "b", "1", "-", " "}

\* the text of the cell in column c (1-based) of a letter table
ColumnText(c) == <<"c", Digits[(c \div 10) + 1], Digits[(c % 10) + 1]>>

\* a table of n columns and two rows; the second row has a NaN first cell
LetterTable(n) ==
    [cols |-> [c \in 1..n |-> ColumnText(c)],
     rows |-> << [c \in 1..n |-> ColumnText(c)],
                 [c \in 1..n |-> IF c = 1 THEN << >> ELSE ColumnText(c)] >>]

LetterTables == {LetterTable(n) : n \in {2, 27, 28}}

NoBatch ==
    /\ col_store = << >>
    /\ col_bex_yesno = << >>
    /\ i0 = 0
    /\ built = 0
    /\ zf = << >>
    /\ warnings = << >>
    /\ skips = << >>
    /\ errors = << >>

InitLetter ==
    /\ pc = "call_letter"
    /\ arg \in [letter : StringsUpTo(LetterAlphabet, MaxLetterLen),
                df : LetterTables,
                row : 0..2]
    /\ ret = << >>
    /\ NoBatch

CallLetter ==
    /\ pc = "call_letter"
    /\ ret' = [idx |-> letter_to_index(arg.letter),
               val |-> value_from_letter_row(arg.df, arg.row, arg.letter)]
    /\ pc' = "ret_letter"
    /\ UNCHANGED <<arg, batchVars>>

NextLetter == CallLetter

SpecLetter == InitLetter /\ [][NextLetter]_vars

\* sum of digit * 26^(position from the right), digits A=1..Z=26
RECURSIVE Pow26(_)
Pow26(n) == IF n = 0 THEN 1 ELSE 26 * Pow26(n - 1)

RECURSIVE Base26From(_, _)
Base26From(t, i) ==
    IF i > Len(t) THEN 0
    ELSE LetterDigit(t[i]) * Pow26(Len(t) - i) + Base26From(t, i + 1)

LettersOf(letter) == KeepOnly(upper(strip(letter)), UpperSet)

HasNonLetter(letter) == \E i \in DOMAIN upper(strip(letter)) :
                            upper(strip(letter))[i] \notin UpperSet

RowInRange == arg.row < Len(arg.df.rows)

\* C9 as stated in the specification: base-26 with digits A=1..Z=26 minus 1,
\* and every letter string with a character outside A-Z is rejected as
\* unresolved and addresses no column.
C9_RejectsNonLetters ==
    pc = "ret_letter" =>
        /\ (~HasNonLetter(arg.letter) /\ LettersOf(arg.letter) # << >>)
              => ret.idx = Some(Base26From(LettersOf(arg.letter), 1) - 1)
        /\ HasNonLetter(arg.letter) => (ret.idx = None /\ ret.val = << >>)

\* C9 (amended): letter_to_index trims and upper-cases the letter string,
\* drops every character outside A-Z and reads the remaining letters as a
\* base-26 number with digits A=1..Z=26 minus 1 (A 0, Z 25, AA 26, AB 27,
\* "B1" 1); it is None only when no letter remains.  value_from_letter_row
\* addresses the column of that index when the index is below the column
\* count and the row is in range, and otherwise is empty without raising.
C9_LetterIndex ==
    pc = "ret_letter" =>
        LET t == LettersOf(arg.letter)
            n == Base26From(t, 1) - 1
        IN  /\ ret.idx = IF t = << >> THEN None ELSE Some(n)
            /\ arg.letter = <<"A">> => ret.idx = Some(0)
            /\ arg.letter = <<"Z">> => ret.idx = Some(25)
            /\ arg.letter = <<"A", "A">> => ret.idx = Some(26)
            /\ arg.letter = <<"A", "B">> => ret.idx = Some(27)
            /\ arg.letter = <<"B", "1">> => ret.idx = Some(1)
            /\ ret.val = IF t # << >> /\ n < Len(arg.df.cols) /\ RowInRange
                         THEN arg.df.rows[arg.row + 1][n + 1]
                         ELSE << >>

\* "B1" was entered: the digit is dropped and column B (index 1) is read
C9_Witness ==
    /\ pc = "ret_letter"
    /\ arg.letter = <<"B", "1">>
    /\ arg.row = 0
    /\ ret.idx = Some(1)
    /\ ret.val = ColumnText(2)

----------------------------------------------------------------------------
(* coerce_number / as_percent, app.py:85-107, and the percent fields of    *)
(* the mapping, app.py:371-387.                                            *)
(*                                                                         *)
(* A cell value is [kind |-> "num", h |-> n], the number n/100 (an int or  *)
(* a float of the DataFrame with at most two decimals), or                 *)
(* [kind |-> "str", s |-> text].  Floats are carried in hundredths: for    *)
(* such a value x, x * 100.0 rounds to the integer n, and round(x) is a    *)
(* tie only when n ends in 50, where the float x is exact and Python       *)
(* rounds half to even.                                                    *)

Num(n) == [kind |-> "num", h |-> n]

Str(t) == [kind |-> "str", s |-> t]

\* str.replace("%", "")
RemovePercent(s) == SelectSeq(s, LAMBDA c : c # "%")

\* the value of a string of decimal digits
RECURSIVE DigitsValue(_)
DigitsValue(s) ==
    IF s = << >> THEN 0
    ELSE DigitsValue(SubSeq(s, 1, Len(s) - 1)) * 10 + (PosIn(Digits, s[Len(s)]) - 1)

AllDigits(s) == \A i \in DOMAIN s : s[i] \in DigitSet

\* the fractional digits f as hundredths; inputs carry at most two decimals
FractionHundredths(f) ==
    CASE Len(f) = 0 -> 0
      [] Len(f) = 1 -> DigitsValue(f) * 10
      [] Len(f) = 2 -> DigitsValue(f)

\* float(s) of an unsigned decimal literal, in hundredths; None = ValueError
UnsignedFloat(s) ==
    IF \E i \in DOMAIN s : s[i] = "."
    THEN LET d == CHOOSE i \in DOMAIN s : s[i] = "." /\ \A j \in 1..(i - 1) : s[j] # "."
             w == SubSeq(s, 1, d - 1)
             f == SubSeq(s, d + 1, Len(s))
         IN  IF AllDigits(w) /\ AllDigits(f) /\ Len(w) + Len(f) > 0
             THEN Some(DigitsValue(w) * 100 + FractionHundredths(f))
             ELSE None
    ELSE IF s # << >> /\ AllDigits(s) THEN Some(DigitsValue(s) * 100) ELSE None

\* float(s): surrounding whitespace is ignored, one sign is accepted
ParseFloat(s0) ==
    LET s == strip(s0)
    IN  IF s = << >> THEN None
        ELSE IF Head(s) = "-"
             THEN LET u == UnsignedFloat(Tail(s))
                  IN  IF u = None THEN None ELSE Some(0 - u[1])
        ELSE IF Head(s) = "+" THEN UnsignedFloat(Tail(s))
        ELSE UnsignedFloat(s)

\* coerce_number, app.py:85-97: the float in hundredths, or None
coerce_number(val) ==
    IF val.kind = "num" THEN Some(val.h)
    ELSE LET s == RemovePercent(strip(val.s))
         IN  IF s = << >> THEN None ELSE ParseFloat(s)

\* round(x) of the float n/100: to the nearest integer, ties to even
RoundHundredths(n) ==
    LET q == n \div 100
        r == n % 100
    IN  IF r < 50 THEN q
        ELSE IF r > 50 THEN q + 1
        ELSE IF q % 2 = 0 THEN q ELSE q + 1

RECURSIVE NatToStr(_)
NatToStr(n) ==
    IF n < 10 THEN <<Digits[n + 1]>>
    ELSE NatToStr(n \div 10) \o <<Digits[(n % 10) + 1]>>

\* f"{k:d}"
IntToStr(k) == IF k < 0 THEN <<"-">> \o NatToStr(0 - k) ELSE NatToStr(k)

\* the test of app.py:105 on x = n/100 (x <= 1.0)
ScaleUp(n) == n <= 100

\* as_percent, app.py:99-107
as_percent(val) ==
    LET x == coerce_number(val)
    IN  IF x = None THEN << >>
        ELSE LET y == IF ScaleUp(x[1]) THEN x[1] * 100 ELSE x[1]
             IN  IntToStr(RoundHundredths(y)) \o <<"%">>

\* str(v) of a number n/100 with at most two decimals (120 -> "120",
\* 0.87 -> "0.87", 1.5 -> "1.5"); a whole number is taken to be an int cell
NumToStr(n) ==
    LET a == IF n < 0 THEN 0 - n ELSE n
        sign == IF n < 0 THEN <<"-">> ELSE << >>
        w == NatToStr(a \div 100)
        f == a % 100
    IN  IF f = 0 THEN sign \o w
        ELSE IF f % 10 = 0 THEN sign \o w \o <<".", Digits[(f \div 10) + 1]>>
        ELSE sign \o w \o <<".", Digits[(f \div 10) + 1], Digits[(f % 10) + 1]>>

\* the text a mapping value v is substituted as: str(v)
Display(v) == IF v.kind = "num" THEN NumToStr(v.h) ELSE v.s

\* v != "" of app.py:372 (a number is never equal to "")
NotEmpty(v) == v.kind = "num" \/ v.s # << >>

\* mapping["plan_vs_target"], app.py:372 and 381, as displayed
percent_field(v) ==
    LET fmt == IF NotEmpty(v) THEN as_percent(v) ELSE << >>
    IN  IF fmt # << >> THEN fmt ELSE Display(v)

----------------------------------------------------------------------------
(* Calls of the percent formatting on bounded inputs *)

MaxHundredths == 1100

MaxWhole == 125

PercentSuffixes == {<< >>, <<"%">>, <<" ">>}

PercentInputs ==
    {Num(n) : n \in (0 - MaxHundredths)..MaxHundredths}
    \cup {Num(100 * k) : k \in (0 - MaxWhole)..MaxWhole}
    \cup {Str(NumToStr(n) \o x) : n \in (0 - MaxHundredths)..MaxHundredths,
                                  x \in PercentSuffixes}
    \cup {Str(<<"a", "b", "c">>), Str(<< >>), Str(<<"%">>),
          Str(<<"1", ",", "2", "2">>), Str(<<"+", "5">>), Str(<<".", "5">>)}

InitPercent ==
    /\ pc = "call_percent"
    /\ arg \in [val : PercentInputs]
    /\ ret = << >>
    /\ NoBatch

CallPercent ==
    /\ pc = "call_percent"
    /\ ret' = percent_field(arg.val)
    /\ pc' = "ret_percent"
    /\ UNCHANGED <<arg, batchVars>>

NextPercent == CallPercent

SpecPercent == InitPercent /\ [][NextPercent]_vars

Abs(n) == IF n < 0 THEN 0 - n ELSE n

\* the percent heuristic of the specification on the number n/100
HeuristicPercent(n) ==
    IF Abs(n) < 1000 THEN IntToStr(n) \o <<"%">>
    ELSE IntToStr(RoundHundredths(n)) \o <<"%">>

EndsInPercent(s) == strip(s) # << >> /\ strip(s)[Len(strip(s))] = "%"

\* what the specification says toDisplay(v, percent) is
SpecifiedPercent(v) ==
    IF v.kind = "num" THEN HeuristicPercent(v.h)
    ELSE IF EndsInPercent(v.s) THEN strip(v.s)
    ELSE IF ParseFloat(v.s) # None THEN HeuristicPercent(ParseFloat(v.s)[1])
    ELSE v.s

\* C7: a percent field displays a number of absolute value below 10 times
\* 100, any other number as it is, rounded and suffixed with %; a value
\* ending in % and a non-numeric string are displayed unchanged.
C7_PercentHeuristic ==
    pc = "ret_percent" => ret = SpecifiedPercent(arg.val)

\* the examples of C7 on which the code agrees with the specification
C7_AgreedExamples ==
    pc = "ret_percent" =>
        /\ arg.val = Num(85) => ret = <<"8", "5", "%">>
        /\ arg.val = Num(12200) => ret = <<"1", "2", "2", "%">>
        /\ arg.val = Str(<<"8", "7", "%">>) => ret = <<"8", "7", "%">>
        /\ arg.val = Str(<<"a", "b", "c">>) => ret = <<"a", "b", "c">>

\* the example of C7 the code gets wrong: 1.22 is displayed as "1%"
C7_Reached ==
    /\ pc = "ret_percent"
    /\ arg.val = Num(122)
    /\ ret = <<"1", "%">>

----------------------------------------------------------------------------
(* replace_placeholders, app.py:30-46.                                      *)
(*                                                                         *)
(* A document is [paragraphs, cells]: the body paragraphs and the          *)
(* paragraphs of the table cells, each paragraph a sequence of runs, each  *)
(* run its text.  A mapping is a function from keys to texts (str(value)); *)
(* a key that is absent, or whose value is None, gives "".                 *)

\* [A-Za-z0-9_]
IdentChars == UpperSet \cup LowerSet \cup DigitSet \cup {"_"}

\* the number of characters of [A-Za-z0-9_]* that s holds from position i on
RECURSIVE IdentRun(_, _)
IdentRun(s, i) ==
    IF i <= Len(s) /\ s[i] \in IdentChars THEN 1 + IdentRun(s, i + 1) ELSE 0

\* the length of the match of \[\[([A-Za-z0-9_]+)\]\] at position i of s,
\* 0 when the pattern does not match there
TokenAt(s, i) ==
    IF i + 1 <= Len(s) /\ s[i] = "[" /\ s[i + 1] = "["
    THEN LET k == IdentRun(s, i + 2)
         IN  IF /\ k >= 1
                /\ i + 3 + k <= Len(s)
                /\ s[i + 2 + k] = "]"
                /\ s[i + 3 + k] = "]"
             THEN k + 4 ELSE 0
    ELSE 0

\* key_to_val, app.py:35
key_to_val(mapping, key) ==
    IF key \in DOMAIN mapping THEN mapping[key] ELSE << >>

\* pattern.sub(key_to_val, s) from position i on: the leftmost matches,
\* not overlapping, each replaced once
RECURSIVE SubFrom(_, _, _)
SubFrom(s, i, mapping) ==
    IF i > Len(s) THEN << >>
    ELSE LET n == TokenAt(s, i)
         IN  IF n > 0
             THEN key_to_val(mapping, SubSeq(s, i + 2, i + n - 3))
                      \o SubFrom(s, i + n, mapping)
             ELSE <<s[i]>> \o SubFrom(s, i + 1, mapping)

\* subfun, app.py:34-36
subfun(s, mapping) == SubFrom(s, 1, mapping)

\* p.text: the concatenation of the runs
RECURSIVE ParagraphText(_)
ParagraphText(p) ==
    IF p = << >> THEN << >> ELSE Head(p) \o ParagraphText(Tail(p))

\* app.py:39-40 and 45-46: each run of the paragraph on its own
replace_in_paragraph(p, mapping) ==
    [r \in DOMAIN p |-> subfun(p[r], mapping)]

replace_placeholders(doc, mapping) ==
    [paragraphs |-> [k \in DOMAIN doc.paragraphs |->
                        replace_in_paragraph(doc.paragraphs[k], mapping)],
     cells |-> [k \in DOMAIN doc.cells |->
                        replace_in_paragraph(doc.cells[k], mapping)]]

----------------------------------------------------------------------------
(* Calls of replace_placeholders on bounded documents *)

MaxPieces == 3

Pieces == { <<"[", "[">>, <<"]", "]">>, <<"[", "[", "a", "]", "]">>,
            <<"a">>, <<"[">>, <<" ">> }

RECURSIVE Texts(_)
Texts(n) ==
    IF n = 0 THEN {<< >>}
    ELSE Texts(n - 1) \cup {t \o q : t \in Texts(n - 1), q \in Pieces}

\* the text t cut into three runs after positions i and j
Cut(t, i, j) == <<SubSeq(t, 1, i), SubSeq(t, i + 1, j), SubSeq(t, j + 1, Len(t))>>

Mappings == { <<"a">> :> <<"v">>, <<"a">> :> << >>, << >> }

InitSubst ==
    /\ pc = "call_subst"
    /\ \E t \in Texts(MaxPieces), m \in Mappings, inCell \in BOOLEAN :
         \E i \in 0..Len(t) : \E j \in i..Len(t) :
            arg = [doc |-> IF inCell
                           THEN [paragraphs |-> << >>, cells |-> <<Cut(t, i, j)>>]
                           ELSE [paragraphs |-> <<Cut(t, i, j)>>, cells |-> << >>],
                   mapping |-> m]
    /\ ret = << >>
    /\ NoBatch

\* the first pass, with the field map
FirstPass ==
    /\ pc = "call_subst"
    /\ ret' = <<replace_placeholders(arg.doc, arg.mapping)>>
    /\ pc' = "once"
    /\ UNCHANGED <<arg, batchVars>>

\* a second pass over the result, with the same or with an empty field map
SecondPass ==
    /\ pc = "once"
    /\ \E m \in {arg.mapping, << >>} :
          ret' = Append(ret, replace_placeholders(ret[1], m))
    /\ pc' = "twice"
    /\ UNCHANGED <<arg, batchVars>>

NextSubst == FirstPass \/ SecondPass

SpecSubst == InitSubst /\ [][NextSubst]_vars

AllParagraphs(doc) == doc.paragraphs \o doc.cells

HasToken(s) == \E i \in DOMAIN s : TokenAt(s, i) > 0

\* C5: after rendering, the logical text of every paragraph is the
\* substitution of its concatenated text, however the text is split in runs.
C5_SplitTokens ==
    pc = "once" =>
        \A k \in DOMAIN AllParagraphs(arg.doc) :
            ParagraphText(AllParagraphs(ret[1])[k])
                = subfun(ParagraphText(AllParagraphs(arg.doc)[k]), arg.mapping)

\* C6: after one pass no run holds a token [[identifier]], and a second pass
\* with the same or an empty field map changes nothing.
C6_Idempotent ==
    /\ pc = "once" =>
          \A k \in DOMAIN AllParagraphs(ret[1]) :
              \A r \in DOMAIN AllParagraphs(ret[1])[k] :
                  ~HasToken(AllParagraphs(ret[1])[k][r])
    /\ pc = "twice" => ret[2] = ret[1]

----------------------------------------------------------------------------
(* normkey and pick, app.py:48-66 *)

\* [\s\-_\.]
Separators == Whitespace \cup {"-", "_", "."}

normkey(x) == SelectSeq(lower(strip(x)), LAMBDA c : c \notin Separators)

(* re.compile(a, re.IGNORECASE) for the patterns the aliases are written   *)
(* in: literal characters, "." and the postfix quantifiers "?" and "*".    *)
(* The compiled pattern is a sequence of atoms [ch, any, q]; None is       *)
(* re.error (a quantifier with nothing to repeat).                         *)
Quantifiers == {"?", "*"}

RECURSIVE CompileFrom(_, _)
CompileFrom(a, i) ==
    IF i > Len(a) THEN Some(<< >>)
    ELSE IF a[i] \in Quantifiers THEN None
    ELSE LET q == IF i + 1 <= Len(a) /\ a[i + 1] \in Quantifiers
                  THEN a[i + 1] ELSE "1"
             rest == CompileFrom(a, IF q = "1" THEN i + 1 ELSE i + 2)
         IN  IF rest = None THEN None
             ELSE Some(<<[ch |-> ToLower(a[i]), any |-> (a[i] = "."), q |-> q]>>
                           \o rest[1])

re_compile(a) == CompileFrom(a, 1)

AtomMatches(atom, c) == atom.any \/ atom.ch = ToLower(c)

\* whether the atoms of pat from k on match a prefix of s from position i on
RECURSIVE MatchHere(_, _, _, _)
MatchHere(pat, k, s, i) ==
    IF k > Len(pat) THEN TRUE
    ELSE LET one == /\ i <= Len(s)
                    /\ AtomMatches(pat[k], s[i])
         IN  CASE pat[k].q = "1" -> one /\ MatchHere(pat, k + 1, s, i + 1)
               [] pat[k].q = "?" -> \/ (one /\ MatchHere(pat, k + 1, s, i + 1))
                                    \/ MatchHere(pat, k + 1, s, i)
               [] pat[k].q = "*" -> \/ MatchHere(pat, k + 1, s, i)
                                    \/ (one /\ MatchHere(pat, k, s, i + 1))

\* re.search(pat, s) is not None
re_search(pat, s) == \E i \in 1..(Len(s) + 1) : MatchHere(pat, 1, s, i)

\* nmap[key] of app.py:54: a later column of the same key replaces an earlier
NmapLast(columns, key) ==
    LET hits == {i \in DOMAIN columns : normkey(columns[i]) = key}
    IN  IF hits = {} THEN << >>
        ELSE columns[CHOOSE i \in hits : \A j \in hits : j <= i]

\* nmap[key] if the first column of a key were the one kept
NmapFirst(columns, key) ==
    LET hits == {i \in DOMAIN columns : normkey(columns[i]) = key}
    IN  IF hits = {} THEN << >>
        ELSE columns[CHOOSE i \in hits : \A j \in hits : i <= j]

\* whether normkey(a) in nmap
InNmap(columns, a) == \E i \in DOMAIN columns : normkey(columns[i]) = normkey(a)

\* the first loop of pick, app.py:55-57, from alias k on
RECURSIVE PickExact(_, _, _)
PickExact(columns, aliases, k) ==
    IF k > Len(aliases) THEN << >>
    ELSE IF InNmap(columns, aliases[k])
         THEN NmapLast(columns, normkey(aliases[k]))
         ELSE PickExact(columns, aliases, k + 1)

\* the first column the compiled pattern is found in, app.py:63-65
FirstFound(columns, pat) ==
    LET hits == {i \in DOMAIN columns : re_search(pat, columns[i])}
    IN  IF hits = {} THEN << >>
        ELSE columns[CHOOSE i \in hits : \A j \in hits : i <= j]

\* the second loop of pick, app.py:58-65, from alias k on
RECURSIVE PickPattern(_, _, _)
PickPattern(columns, aliases, k) ==
    IF k > Len(aliases) THEN << >>
    ELSE LET pat == re_compile(aliases[k])
         IN  IF pat # None /\ \E i \in DOMAIN columns : re_search(pat[1], columns[i])
             THEN FirstFound(columns, pat[1])
             ELSE PickPattern(columns, aliases, k + 1)

\* pick(columns, *aliases), app.py:52-66; "" when nothing matches
pick(columns, aliases) ==
    IF \E k \in DOMAIN aliases : InNmap(columns, aliases[k])
    THEN PickExact(columns, aliases, 1)
    ELSE PickPattern(columns, aliases, 1)

(* getattr(row, name, "") on a row of df.itertuples(index=False).  The     *)
(* rows are namedtuples built with rename=True: a column keeps its header  *)
(* as field name only if the header is an identifier that does not start   *)
(* with "_" and is not the name of an earlier column; any other column k   *)
(* (0-based) is renamed "_k".  A name that is no field gives the default.  *)
IsFieldName(h) ==
    /\ h # << >>
    /\ \A i \in DOMAIN h : h[i] \in IdentChars
    /\ h[1] \notin DigitSet
    /\ h[1] # "_"

\* the 0-based positions of the columns whose field is `name`
FieldsNamed(columns, name) ==
    {k \in 0..(Len(columns) - 1) :
        LET kept == /\ IsFieldName(columns[k + 1])
                    /\ \A j \in 1..k : columns[j] # columns[k + 1]
        IN  IF kept THEN columns[k + 1] = name
            ELSE name = <<"_">> \o NatToStr(k)}

\* "" if pd.isna(v) else v, for v = getattr(row, name, "")
getattr_row(df, row_idx_0_based, name) ==
    LET f == FieldsNamed(df.cols, name)
    IN  IF f = {} THEN << >>
        ELSE df.rows[row_idx_0_based + 1][(CHOOSE k \in f : TRUE) + 1]

\* reading the cell under the column header itself, df.iloc[i][name]
cell_by_header(df, row_idx_0_based, name) ==
    LET f == {k \in DOMAIN df.cols : df.cols[k] = name}
    IN  IF f = {} THEN << >>
        ELSE df.rows[row_idx_0_based + 1][CHOOSE k \in f : \A j \in f : k <= j]

\* the loop of pick_val over the header fallbacks, app.py:347-352
RECURSIVE FromHeaders(_, _, _, _)
FromHeaders(df, row_idx_0_based, header_fallbacks, k) ==
    IF k > Len(header_fallbacks) THEN << >>
    ELSE LET h_real == pick(df.cols, <<header_fallbacks[k]>>)
         IN  IF h_real # << >>
             THEN getattr_row(df, row_idx_0_based, h_real)
             ELSE FromHeaders(df, row_idx_0_based, header_fallbacks, k + 1)

\* whether the letter names a column of the table
LetterValid(df, letter) ==
    /\ letter_to_index(letter) # None
    /\ letter_to_index(letter)[1] < Len(df.cols)

\* pick_val falling through to the headers when the letter names no column
pick_val_falling_through(df, row_idx_0_based, letter, header_fallbacks) ==
    IF LetterValid(df, letter)
    THEN value_from_letter_row(df, row_idx_0_based, letter)
    ELSE FromHeaders(df, row_idx_0_based, header_fallbacks, 1)

\* pick_val, app.py:343-352
pick_val(df, row_idx_0_based, letter, header_fallbacks) ==
    IF strip(letter) # << >>
    THEN value_from_letter_row(df, row_idx_0_based, letter)
    ELSE FromHeaders(df, row_idx_0_based, header_fallbacks, 1)

----------------------------------------------------------------------------
(* Calls of pick_val on bounded tables *)

MaxCols == 3

H_mobile_actual == <<"m", "o", "b", "i", "l", "e", "_", "a", "c", "t", "u", "a", "l">>

H_Mobile_Actual == <<"M", "o", "b", "i", "l", "e", " ", "A", "c", "t", "u", "a", "l">>

H_mobile_total_actual == <<"m", "o", "b", "i", "l", "e", "_", "t", "o", "t", "a", "l", "_", "a", "c", "t", "u", "a", "l">>

H_BNS_VOICE == <<"B", "N", "S", "_", "V", "O", "I", "C", "E">>

H_LLU_Actual == <<"L", "L", "U", ".", "A", "c", "t", "u", "a", "l">>

PickHeaders == {H_mobile_actual, H_Mobile_Actual, H_mobile_total_actual,
                H_BNS_VOICE, H_LLU_Actual}

\* the header fallbacks of mobile_actual, app.py:355
FallbacksMobileActual ==
    << <<"m", "o", "b", "i", "l", "e", " ", "a", "c", "t", "u", "a", "l">>,
       <<"m", "o", "b", "i", "l", "e", ".", "*", "a", "c", "t", "u", "a", "l">>,
       <<"B", "N", "S", " ", "V", "O", "I", "C", "E">> >>

\* the header fallbacks of llu_actual, app.py:361
FallbacksLlu == << <<"l", "l", "u", " ", "a", "c", "t", "u", "a", "l">> >>

PickLetters == {<< >>, <<" ">>, <<"A">>, <<"b">>, <<"D">>, <<"1">>, <<"A", "1">>}

\* sequences of distinct headers, at most n of them, at least one
RECURSIVE HeaderRows(_, _)
HeaderRows(H, n) ==
    IF n = 0 THEN {<< >>}
    ELSE HeaderRows(H, n - 1)
         \cup {Append(c, h) : c \in {d \in HeaderRows(H, n - 1) : Len(d) = n - 1},
                              h \in H}

Distinct(c) == \A i, j \in DOMAIN c : c[i] = c[j] => i = j

\* the table under the headers c: a full row, and a row whose first cell is NaN
TableOf(c) ==
    [cols |-> c,
     rows |-> << [k \in DOMAIN c |-> ColumnText(k)],
                 [k \in DOMAIN c |-> IF k = 1 THEN << >> ELSE ColumnText(k)] >>]

InitPickVal ==
    /\ pc = "call_pick_val"
    /\ \E c \in {d \in HeaderRows(PickHeaders, MaxCols) : d # << >> /\ Distinct(d)} :
          arg \in [df : {TableOf(c)},
                   row : 0..1,
                   letter : PickLetters,
                   header_fallbacks : {FallbacksMobileActual, FallbacksLlu}]
    /\ ret = << >>
    /\ NoBatch

CallPickVal ==
    /\ pc = "call_pick_val"
    /\ ret' = pick_val(arg.df, arg.row, arg.letter, arg.header_fallbacks)
    /\ pc' = "ret_pick_val"
    /\ UNCHANGED <<arg, batchVars>>

NextPickVal == CallPickVal

SpecPickVal == InitPickVal /\ [][NextPickVal]_vars

\* a header equal to the alias after normalization
ExactHit(columns, a) == \E i \in DOMAIN columns : normkey(columns[i]) = normkey(a)

\* a header the alias, read as a pattern, is found in
PatternHit(columns, a) ==
    /\ re_compile(a) # None
    /\ \E i \in DOMAIN columns : re_search(re_compile(a)[1], columns[i])

C8_PatternBeforeLaterAlias ==
    /\ pc = "ret_pick_val"
    /\ strip(arg.letter) = << >>
    /\ arg.header_fallbacks = FallbacksMobileActual
    /\ arg.df.cols = <<H_BNS_VOICE, H_mobile_total_actual>>
    /\ arg.row = 0
    /\ ret = ColumnText(2)

----------------------------------------------------------------------------
(* The script run after "Generate" is pressed, app.py:200-425.             *)
(*                                                                         *)
(* arg holds the widget values and uploads of the run.  arg.df is the      *)
(* DataFrame of app.py:227 (header_row_1based = 1), arg.faults[i] the      *)
(* stage at which processing row i raises: "none", "values" (an exception  *)
(* while the values are read and formatted, app.py:343-374) or "save" (one *)
(* while the document is serialized and written, app.py:401-408).          *)

\* the row cap of test mode
TestCap == 50

S_Dealer_Code == <<"D", "e", "a", "l", "e", "r", "_", "C", "o", "d", "e">>

S_Dealer_Code_sp == <<"D", "e", "a", "l", "e", "r", " ", "C", "o", "d", "e">>

S_BEX == <<"B", "E", "X">>

S_BEX_store == <<"B", "E", "X", " ", "s", "t", "o", "r", "e">>

S_Name == <<"N", "a", "m", "e">>

S_Flag == <<"F", "l", "a", "g">>

\* default_bex, app.py:154
default_bex == <<"D", "R", "Z", "0", "1", ",", "F", "K", "M", "0", "1", ",", "E", "S", "C", "0", "1", ",", "L", "N", "D", "0", "1", ",", "P", "K", "K", "0", "1">>

\* the aliases of the store column, app.py:238-240; the letters of the
\* Greek alias are written by name, one character each
StoreAliases ==
    << <<"D", "e", "a", "l", "e", "r", " ", "C", "o", "d", "e">>, <<"D", "e", "a", "l", "e", "r", "_", "C", "o", "d", "e">>, <<"d", "e", "a", "l", "e", "r", " ", "c", "o", "d", "e">>, <<"d", "e", "a", "l", "e", "r", "_", "c", "o", "d", "e">>,
       <<"S", "h", "o", "p", " ", "C", "o", "d", "e">>, <<"S", "h", "o", "p", "_", "C", "o", "d", "e">>, <<"S", "h", "o", "p", " ", "c", "o", "d", "e">>,
       <<"S", "T", "O", "R", "E">>,
       <<"Kappa", "alpha", "tau", "alpha_tonos", "sigma", "tau", "eta", "mu", "alpha">>,
       <<"s", "h", "o", "p", ".", "?", "c", "o", "d", "e">>, <<"d", "e", "a", "l", "e", "r", ".", "?", "c", "o", "d", "e">> >>

\* the aliases of the YES/NO column, app.py:252
BexAliases == << <<"B", "E", "X", " ", "s", "t", "o", "r", "e">>, <<"B", "E", "X">>, <<"b", "e", "x", ".", "?", "s", "t", "o", "r", "e">> >>

\* the values read as true, app.py:340
Truthy == { <<"y", "e", "s">>, <<"y">>, <<"1">>, <<"t", "r", "u", "e">>, <<"nu", "alpha", "iota">> }

\* s.split(","), from position i on, the current item being cur
RECURSIVE SplitComma(_, _, _)
SplitComma(s, i, cur) ==
    IF i > Len(s) THEN <<cur>>
    ELSE IF s[i] = "," THEN <<cur>> \o SplitComma(s, i + 1, << >>)
    ELSE SplitComma(s, i + 1, Append(cur, s[i]))

\* bex_set, app.py:251
bex_set(bex_list_text) ==
    LET items == SplitComma(bex_list_text, 1, << >>)
    IN  {upper(strip(items[k])) : k \in {j \in DOMAIN items : strip(items[j]) # << >>}}

\* col_store of app.py:243 in header mode; "" when no store column is found
store_column(cols, store_header_input) ==
    IF \E k \in DOMAIN cols : cols[k] = store_header_input
    THEN store_header_input
    ELSE pick(cols, StoreAliases)

\* col_bex_yesno, app.py:252
bex_column(cols, bex_yesno_header_hint) ==
    IF \E k \in DOMAIN cols : cols[k] = bex_yesno_header_hint
    THEN bex_yesno_header_hint
    ELSE pick(cols, BexAliases)

\* the store of row i as the loop reads it, app.py:325-329
store_of(i) ==
    LET store_val == IF arg.store_mode = "letter"
                     THEN value_from_letter_row(arg.df, i, arg.store_letter)
                     ELSE IF col_store = << >> THEN << >>
                     ELSE getattr_row(arg.df, i, col_store)
    IN  upper(strip(store_val))

\* raw of app.py:338-339
flag_of(i) ==
    LET raw == IF col_bex_yesno = << >> THEN << >>
               ELSE getattr_row(arg.df, i, col_bex_yesno)
    IN  lower(strip(raw))

\* is_bex, app.py:335-340
is_bex(i) ==
    IF arg.bex_mode = "list"
    THEN store_of(i) \in bex_set(arg.bex_list_text)
    ELSE flag_of(i) \in Truthy

\* the first row the loop processes, app.py:316
DataStart == arg.data_start_row_1based - 1

\* the cap test if it counted the rows attempted so far
CapReachedAttempted ==
    arg.test_mode /\ built + Len(warnings) >= TestCap

\* the cap test of app.py:318
CapReached ==
    arg.test_mode /\ (i0 - DataStart) >= TestCap

\* the script after the except clause of a row if it ended the loop
AfterExceptionAbort == "finish"

\* the script after the except clause of a row, app.py:413-416: the next row
AfterException == "loop"

\* no stop for an unresolved store column
StoreStopsNever(c) == FALSE

\* the test of app.py:244, in header mode, on the resolved column c
StoreStops(c) == c = << >>

----------------------------------------------------------------------------
(* Inputs of the run *)

MaxRows == 3

MaxBlank == 2

Layouts == { <<S_Dealer_Code, S_BEX>>,
             <<S_Dealer_Code, S_BEX_store>>,
             <<S_Dealer_Code_sp, S_BEX_store>>,
             <<S_Name, S_Flag>> }

\* rows of a table: the store cell, the flag cell, and the row's fault
RowBlank == [cells |-> << << >>, <<"Y", "e", "s">> >>, fault |-> "none"]

RowListed == [cells |-> << <<" ", "f", "k", "m", "0", "1">>, <<"n", "o">> >>, fault |-> "none"]

RowFlagged == [cells |-> << <<"A", "B", "C">>, <<" ", "Y", "E", "S">> >>, fault |-> "none"]

RowListedFlagged == [cells |-> << <<"F", "K", "M", "0", "1">>, <<"y">> >>, fault |-> "none"]

RowBadValues == [cells |-> << <<"A", "B", "C">>, <<"n", "o">> >>, fault |-> "values"]

RowBadSave == [cells |-> << <<"F", "K", "M", "0", "1">>, <<"Y", "e", "s">> >>, fault |-> "save"]

RowKinds == {RowBlank, RowListed, RowFlagged, RowListedFlagged,
             RowBadValues, RowBadSave}

RECURSIVE RowSeqs(_)
RowSeqs(n) ==
    IF n = 0 THEN {<< >>}
    ELSE RowSeqs(n - 1)
         \cup {Append(r, k) : r \in {q \in RowSeqs(n - 1) : Len(q) = n - 1},
                              k \in RowKinds}

\* k rows with a blank store followed by m rows that render
BlankThenListed(k, m) ==
    [i \in 1..(k + m) |-> IF i <= k THEN RowBlank ELSE RowListed]

\* the uploaded data as read_data returns it: the headers, and the rows with
\* the fault of each; DataNone is the None of a file that could not be read
DataOf(layout, rs) ==
    [cols |-> layout,
     rows |-> [i \in DOMAIN rs |-> rs[i].cells],
     faults |-> [i \in DOMAIN rs |-> rs[i].fault]]

DataNone == [cols |-> << >>, rows |-> << >>, faults |-> << >>]

SmallData == {DataOf(l, rs) : l \in Layouts, rs \in RowSeqs(MaxRows)}

CapData == {DataOf(<<S_Dealer_Code, S_BEX>>, BlankThenListed(k, m)) :
               k \in 0..(MaxBlank + 1), m \in TestCap..(TestCap + 2)}

\* the store source of app.py:171-174: the header, or a column letter
StoreSources == { [mode |-> "header", letter |-> << >>],
                  [mode |-> "letter", letter |-> <<"A">>],
                  [mode |-> "letter", letter |-> <<"Z">>] }

Init ==
    /\ pc = "files"
    /\ \E src \in StoreSources, tm \in BOOLEAN, bm \in {"list", "column"},
          ds \in {2, 3} :
          arg = [xls |-> FALSE, tpl_bex |-> FALSE, tpl_nonbex |-> FALSE,
                 df |-> DataNone,
                 test_mode |-> tm,
                 store_mode |-> src.mode,
                 store_header_input |-> S_Dealer_Code,
                 store_letter |-> src.letter,
                 bex_mode |-> bm,
                 bex_list_text |-> default_bex,
                 bex_yesno_header_hint |-> S_BEX_store,
                 data_start_row_1based |-> ds]
    /\ ret = << >>
    /\ NoBatch

----------------------------------------------------------------------------
(* The steps of the run *)

\* app.py:202-207: the uploads are checked
CheckFiles ==
    /\ pc = "files"
    /\ \E x, b, n \in BOOLEAN :
          /\ arg' = [arg EXCEPT !.xls = x, !.tpl_bex = b, !.tpl_nonbex = n]
          /\ IF ~x
             THEN errors' = Append(errors, "no_file") /\ pc' = "stopped"
             ELSE IF ~b \/ ~n
             THEN errors' = Append(errors, "no_templates") /\ pc' = "stopped"
             ELSE errors' = errors /\ pc' = "read"
    /\ UNCHANGED <<ret, col_store, col_bex_yesno, i0, built, zf, warnings, skips>>

\* app.py:215-229: the data is read; None or an empty table stops the run
ReadData ==
    /\ pc = "read"
    /\ \E d \in SmallData \cup CapData \cup {DataNone} :
          /\ arg' = [arg EXCEPT !.df = d]
          /\ IF d = DataNone \/ d.rows = << >>
             THEN errors' = Append(errors, "no_data") /\ pc' = "stopped"
             ELSE errors' = errors /\ pc' = "resolve"
    /\ UNCHANGED <<ret, col_store, col_bex_yesno, i0, built, zf, warnings, skips>>

\* app.py:234-252: the store column and the YES/NO column are resolved
ResolveColumns ==
    /\ pc = "resolve"
    /\ IF arg.store_mode = "header"
       THEN LET c == store_column(arg.df.cols, arg.store_header_input)
            IN  IF StoreStops(c)
                THEN /\ errors' = Append(errors, "no_store_column")
                     /\ pc' = "stopped"
                     /\ UNCHANGED <<col_store, col_bex_yesno>>
                ELSE /\ col_store' = c
                     /\ col_bex_yesno' = bex_column(arg.df.cols, arg.bex_yesno_header_hint)
                     /\ pc' = "preview"
                     /\ errors' = errors
       ELSE /\ col_store' = << >>
            /\ col_bex_yesno' = bex_column(arg.df.cols, arg.bex_yesno_header_hint)
            /\ pc' = "preview"
            /\ errors' = errors
    /\ UNCHANGED <<arg, ret, i0, built, zf, warnings, skips>>

\* row2_idx0, app.py:280
row2_idx0 == IF arg.data_start_row_1based - 2 > 0
             THEN arg.data_start_row_1based - 2 ELSE 0

\* app.py:278-301: the mapping preview; in header mode df.iloc[row2_idx0]
\* raises IndexError, outside any try, when the table has no such row
Preview ==
    /\ pc = "preview"
    /\ IF arg.store_mode = "header" /\ col_store # << >>
          /\ row2_idx0 >= Len(arg.df.rows)
       THEN errors' = Append(errors, "IndexError") /\ pc' = "crashed"
       ELSE errors' = errors /\ pc' = "loop"
    /\ i0' = 0
    /\ UNCHANGED <<arg, ret, col_store, col_bex_yesno, built, zf, warnings, skips>>

\* app.py:316-317: a row before the data start
SkipBeforeStart ==
    /\ pc = "loop"
    /\ i0 < Len(arg.df.rows)
    /\ i0 < DataStart
    /\ i0' = i0 + 1
    /\ UNCHANGED <<pc, arg, ret, col_store, col_bex_yesno, built, zf, warnings,
                   skips, errors>>

\* app.py:318-320: the cap of test mode ends the loop
CapBreak ==
    /\ pc = "loop"
    /\ i0 < Len(arg.df.rows)
    /\ i0 >= DataStart
    /\ CapReached
    /\ pc' = "finish"
    /\ UNCHANGED <<arg, ret, col_store, col_bex_yesno, i0, built, zf, warnings,
                   skips, errors>>

\* the row i0 is processed (neither before the data start nor past the cap)
InLoopBody ==
    /\ pc = "loop"
    /\ i0 < Len(arg.df.rows)
    /\ i0 >= DataStart
    /\ ~CapReached

\* app.py:330-332: a row with an empty store is skipped
SkipBlank ==
    /\ InLoopBody
    /\ store_of(i0) = << >>
    /\ skips' = Append(skips, i0 + 1)
    /\ i0' = i0 + 1
    /\ UNCHANGED <<pc, arg, ret, col_store, col_bex_yesno, built, zf, warnings,
                   errors>>

\* app.py:413-416: processing the row raised; a warning, nothing is written
RowFail ==
    /\ InLoopBody
    /\ store_of(i0) # << >>
    /\ arg.df.faults[i0 + 1] # "none"
    /\ warnings' = Append(warnings, i0 + 1)
    /\ pc' = AfterException
    /\ i0' = i0 + 1
    /\ UNCHANGED <<arg, ret, col_store, col_bex_yesno, built, zf, skips, errors>>

\* app.py:334-411: the document of the row is rendered and added to the ZIP
RowBuild ==
    /\ InLoopBody
    /\ store_of(i0) # << >>
    /\ arg.df.faults[i0 + 1] = "none"
    /\ zf' = Append(zf, [name |-> store_of(i0),
                         tpl |-> IF is_bex(i0) THEN "BEX" ELSE "Non-BEX",
                         bex |-> IF is_bex(i0) THEN "YES" ELSE "NO",
                         row |-> i0])
    /\ built' = built + 1
    /\ i0' = i0 + 1
    /\ UNCHANGED <<pc, arg, ret, col_store, col_bex_yesno, warnings, skips, errors>>

\* the rows are exhausted
LoopEnd ==
    /\ pc = "loop"
    /\ i0 >= Len(arg.df.rows)
    /\ pc' = "finish"
    /\ UNCHANGED <<arg, ret, col_store, col_bex_yesno, i0, built, zf, warnings,
                   skips, errors>>

\* app.py:418-425: the ZIP is closed and the result reported
Finish ==
    /\ pc = "finish"
    /\ errors' = IF built = 0 THEN Append(errors, "nothing_built") ELSE errors
    /\ pc' = "done"
    /\ UNCHANGED <<arg, ret, col_store, col_bex_yesno, i0, built, zf, warnings, skips>>

Next ==
    \/ CheckFiles
    \/ ReadData
    \/ ResolveColumns
    \/ Preview
    \/ SkipBeforeStart
    \/ CapBreak
    \/ SkipBlank
    \/ RowFail
    \/ RowBuild
    \/ LoopEnd
    \/ Finish

Spec == Init /\ [][Next]_vars

----------------------------------------------------------------------------
(* Properties of the run *)

NRows == Len(arg.df.rows)

Min(a, b) == IF a <= b THEN a ELSE b

EntriesOf(i) == {k \in DOMAIN zf : zf[k].row = i}

WarningsOf(i) == {k \in DOMAIN warnings : warnings[k] = i + 1}

SkipsOf(i) == {k \in DOMAIN skips : skips[k] = i + 1}

\* the rows the loop has to process: from the data start on, and in test
\* mode the first TestCap of them
RowsInScope ==
    {i \in 0..(NRows - 1) :
        i >= DataStart /\ (arg.test_mode => i - DataStart < TestCap)}

\* what processing row i gives, from row i and the settings alone
Renders(i) == store_of(i) # << >> /\ arg.df.faults[i + 1] = "none"

Raises(i) == store_of(i) # << >> /\ arg.df.faults[i + 1] # "none"

\* C1: a row that raises adds no entry to the archive and does not end the
\* batch: when the run is done every row in scope, the rows after a failing
\* row included, has been processed to the result it has on its own; the
\* entries are in row order.
C1_RowFailureIsolated ==
    /\ \A k \in DOMAIN zf : arg.df.faults[zf[k].row + 1] = "none"
    /\ pc = "done" =>
          /\ \A i \in RowsInScope :
                /\ Cardinality(EntriesOf(i)) = IF Renders(i) THEN 1 ELSE 0
                /\ Cardinality(WarningsOf(i)) = IF Raises(i) THEN 1 ELSE 0
                /\ \A k \in EntriesOf(i) :
                      /\ zf[k].name = store_of(i)
                      /\ zf[k].tpl = IF is_bex(i) THEN "BEX" ELSE "Non-BEX"
          /\ \A k \in DOMAIN zf : zf[k].row \in RowsInScope
          /\ \A j, k \in DOMAIN zf : j < k => zf[j].row < zf[k].row

\* a row raised, and a later row was rendered into the archive
C1_Witness ==
    /\ pc = "done"
    /\ \E w \in DOMAIN warnings : \E k \in DOMAIN zf : zf[k].row + 1 > warnings[w]

\* the store cell of row i: the cell under the resolved store header, or in
\* letter mode the cell of the store letter
IdentifierCell(i) ==
    IF arg.store_mode = "letter"
    THEN value_from_letter_row(arg.df, i, arg.store_letter)
    ELSE cell_by_header(arg.df, i, col_store)

BlankIdentifier(i) == strip(IdentifierCell(i)) = << >>

\* C2: when the batch is done (without the row cap) every data row is in
\* exactly one outcome: succeeded (one entry), skipped (blank identifier, no
\* entry, no failure) or failed (no entry, one failure); the number of
\* entries is the number of rows with a non-blank identifier that did not
\* fail.
C2_ThreeOutcomes ==
    (pc = "done" /\ ~arg.test_mode) =>
        /\ \A i \in DataStart..(NRows - 1) :
              LET e == Cardinality(EntriesOf(i))
                  w == Cardinality(WarningsOf(i))
                  s == Cardinality(SkipsOf(i))
              IN  \/ ~BlankIdentifier(i) /\ e = 1 /\ w = 0 /\ s = 0
                  \/ BlankIdentifier(i) /\ e = 0 /\ w = 0 /\ s = 1
                  \/ ~BlankIdentifier(i) /\ e = 0 /\ w = 1 /\ s = 0
        /\ Len(zf) = Cardinality({i \in DataStart..(NRows - 1) :
                         ~BlankIdentifier(i) /\ arg.df.faults[i + 1] = "none"})

\* with the default data start (2) the first row of the table, which holds an
\* identifier, is passed over: no entry, no failure, no skip is recorded
C2_FirstRowDropped ==
    /\ pc = "done"
    /\ ~arg.test_mode
    /\ arg.data_start_row_1based = 2
    /\ arg.store_mode = "header"
    /\ arg.df.cols = <<S_Dealer_Code, S_BEX>>
    /\ ~BlankIdentifier(0)
    /\ EntriesOf(0) = {} /\ WarningsOf(0) = {} /\ SkipsOf(0) = {}

\* rows attempted: rendered or failed, not skipped
Attempted == built + Len(warnings)

\* C3 as stated in the specification: with the cap, rows skipped for a blank
\* identifier do not count, so the run attempts TestCap rows whenever that
\* many rows with an identifier exist.
C3_CapCountsAttempted ==
    (pc = "done" /\ arg.test_mode) =>
        Attempted = Min(TestCap,
                        Cardinality({i \in DataStart..(NRows - 1) : store_of(i) # << >>}))

\* C3 (amended): with the cap, the loop ends after TestCap rows of the table
\* from the data start on were visited, the rows skipped for a blank
\* identifier counted among them: the rows attempted are the rows with an
\* identifier among those first TestCap rows.
C3_CapCountsRows ==
    (pc = "done" /\ arg.test_mode) =>
        LET V == DataStart..(Min(NRows, DataStart + TestCap) - 1)
        IN  /\ Attempted = Cardinality({i \in V : store_of(i) # << >>})
            /\ Len(skips) = Cardinality({i \in V : store_of(i) = << >>})
            /\ Attempted + Len(skips) <= TestCap

\* a capped run over blank rows followed by at least TestCap rows with an
\* identifier attempts fewer than TestCap rows
C3_Witness ==
    /\ pc = "done"
    /\ arg.test_mode
    /\ Len(skips) >= 1
    /\ Cardinality({i \in DataStart..(NRows - 1) : store_of(i) # << >>}) >= TestCap
    /\ Attempted = TestCap - Len(skips)

Aborted == pc \in {"stopped", "crashed"}

NoStoreHeader ==
    /\ \A k \in DOMAIN arg.df.cols : arg.df.cols[k] # arg.store_header_input
    /\ \A a \in DOMAIN StoreAliases :
          ~ExactHit(arg.df.cols, StoreAliases[a]) /\ ~PatternHit(arg.df.cols, StoreAliases[a])

C4_LoopWithUnresolvedFields ==
    /\ pc = "loop"
    /\ arg.store_mode = "letter"
    /\ ~LetterValid(arg.df, arg.store_letter)
    /\ col_bex_yesno = << >>

\* C10: in flag-column mode a row is flagged exactly when its flag value,
\* trimmed and lower-cased, is one of the true values; in list mode exactly
\* when its identifier is in the list; the template used is the one of that
\* category.
C10_FlagOrListDecides ==
    \A k \in DOMAIN zf :
        LET i == zf[k].row
            flag == lower(strip(cell_by_header(arg.df, i, col_bex_yesno)))
            flagged == IF arg.bex_mode = "column"
                       THEN flag \in Truthy
                       ELSE upper(strip(IdentifierCell(i))) \in bex_set(arg.bex_list_text)
        IN  /\ zf[k].tpl = IF flagged THEN "BEX" ELSE "Non-BEX"
            /\ zf[k].bex = IF flagged THEN "YES" ELSE "NO"

----------------------------------------------------------------------------
(* Calls of pick on bounded header rows, app.py:52-66, with the alias      *)
(* lists of the two calls that pass several aliases (app.py:236-241, 252). *)
(* The headers of a DataFrame are distinct.                                *)

P_Shop_Code == <<"S", "h", "o", "p", "_", "C", "o", "d", "e">>

P_Shop_Code_sp == <<"S", "h", "o", "p", " ", "C", "o", "d", "e">>

P_ShopCode == <<"S", "h", "o", "p", "C", "o", "d", "e">>

P_Old_Shop_Code == <<"O", "l", "d", " ", "S", "h", "o", "p", " ", "C", "o", "d", "e">>

P_Main_shopcode == <<"M", "a", "i", "n", " ", "s", "h", "o", "p", "c", "o", "d", "e">>

P_bex_store == <<"b", "e", "x", "_", "s", "t", "o", "r", "e">>

P_Bex_Store_old == <<"B", "e", "x", "-", "S", "t", "o", "r", "e", " ", "o", "l", "d">>

\* headers equal after normalization (Shop_Code, Shop Code, ShopCode;
\* Dealer_Code, Dealer Code; BEX store, bex_store), headers only a pattern
\* is found in, and headers no alias finds
PickColumns == {P_Shop_Code, P_Shop_Code_sp, P_ShopCode, P_Old_Shop_Code,
                P_Main_shopcode, S_Dealer_Code, S_Dealer_Code_sp,
                S_BEX_store, P_bex_store, P_Bex_Store_old, S_Name}

PickAliases == {StoreAliases, BexAliases}

InitPick ==
    /\ pc = "call_pick"
    /\ \E c \in {d \in HeaderRows(PickColumns, MaxCols) : d # << >> /\ Distinct(d)} :
          arg \in [columns : {c}, aliases : PickAliases]
    /\ ret = << >>
    /\ NoBatch

CallPick ==
    /\ pc = "call_pick"
    /\ ret' = pick(arg.columns, arg.aliases)
    /\ pc' = "ret_pick"
    /\ UNCHANGED <<arg, batchVars>>

NextPick == CallPick

SpecPick == InitPick /\ [][NextPick]_vars

\* the first alias, in alias order, some header equals after normalization
FirstExactAlias(columns, aliases) ==
    LET hits == {k \in DOMAIN aliases : ExactHit(columns, aliases[k])}
    IN  CHOOSE k \in hits : \A j \in hits : k <= j

\* the first alias, in alias order, that is found in some header as a pattern
FirstPatternAlias(columns, aliases) ==
    LET hits == {k \in DOMAIN aliases : PatternHit(columns, aliases[k])}
    IN  CHOOSE k \in hits : \A j \in hits : k <= j

AnyExact(columns, aliases) == \E k \in DOMAIN aliases : ExactHit(columns, aliases[k])

AnyPattern(columns, aliases) == \E k \in DOMAIN aliases : PatternHit(columns, aliases[k])

\* C11: pick resolves a list of aliases to at most one column and the first
\* match wins with ties broken by column order: when several headers
\* normalize to the key of the matching alias the column returned is the
\* one that comes first in the table, and for a pattern match the first
\* header in table order the pattern is found in is returned; with no
\* match the result is empty.
C11_FirstInColumnOrder ==
    pc = "ret_pick" =>
        LET cols == arg.columns
            al == arg.aliases
        IN  IF AnyExact(cols, al)
            THEN ret = NmapFirst(cols, normkey(al[FirstExactAlias(cols, al)]))
            ELSE IF AnyPattern(cols, al)
            THEN ret = FirstFound(cols, re_compile(al[FirstPatternAlias(cols, al)])[1])
            ELSE ret = << >>

\* the headers Shop_Code and Shop Code, in this order, normalize to the key
\* of the alias "Shop Code": pick returns the second of them
C11_LastOfEqualKeys ==
    /\ pc = "ret_pick"
    /\ arg.columns = <<P_Shop_Code, P_Shop_Code_sp>>
    /\ arg.aliases = StoreAliases
    /\ ret = P_Shop_Code_sp

\* what pick does: at most one column is returned; among the headers equal
\* to the matching alias after normalization it is the last in table order,
\* and for a pattern match it is the first header in table order
C11_AsCoded ==
    pc = "ret_pick" =>
        LET cols == arg.columns
            al == arg.aliases
        IN  /\ ret = << >> \/ \E i \in DOMAIN cols : ret = cols[i]
            /\ IF AnyExact(cols, al)
               THEN ret = NmapLast(cols, normkey(al[FirstExactAlias(cols, al)]))
               ELSE IF AnyPattern(cols, al)
               THEN LET pat == re_compile(al[FirstPatternAlias(cols, al)])[1]
                        found == {i \in DOMAIN cols : re_search(pat, cols[i])}
                    IN  ret = cols[CHOOSE i \in found : \A j \in found : i <= j]
               ELSE ret = << >>

\* a pattern match with two candidate headers: no header equals an alias,
\* shop.?code is found in both, and the first in table order is returned
C11_PatternFirstReached ==
    /\ pc = "ret_pick"
    /\ arg.columns = <<S_Name, P_Old_Shop_Code, P_Main_shopcode>>
    /\ arg.aliases = StoreAliases
    /\ ret = P_Old_Shop_Code

====
